---- MODULE Spec2Model ----
(***************************************************************************)
(* Model of WGANTrainer (Marked_exercises_2/WGAN/trainer.py): the critic   *)
(* step, the generator step, the epoch driver and the training driver.     *)
(*                                                                         *)
(* Parameter values are floats in units of 0.001 (5 is 0.005, 10 is 0.01); *)
(* NaN is the float NaN, which every comparison rejects and clamp_ keeps.  *)
(* The two networks and the two optimizers are external: an optimizer step *)
(* writes an arbitrary value into each parameter it updates.  A loss-log   *)
(* entry is the loss computed by one step, identified by the epoch and the *)
(* batch of that step.                                                     *)
(***************************************************************************)
EXTENDS Integers, Sequences, FiniteSets, TLC

\* ---------------------------------------------------------------- bounds
MaxEpochs  == 2
MaxBatches == 2
MaxK       == 2

\* ------------------------------------------------------------- constants
DefaultClip  == 1
PaperClip    == 10
ExplicitClip == PaperClip
NaN          == 999

GenParams  == {"g1"}
DiscParams == {"d1", "d2"}
Params     == GenParams \cup DiscParams

UpdateVals    == {-20, 5, 20, NaN}
GenUpdateVals == {5, NaN}
InitVals      == {0, 20}

VARIABLES
  params,          \* parameter name -> value (both networks)
  requires_grad,   \* parameter name -> BOOLEAN
  hasGrad,         \* parameters whose .grad is not None
  training,        \* both networks in train() mode (FALSE after eval())
  disc_loss_log,   \* self.disc_loss_log
  gen_loss_log,    \* self.gen_loss_log
  weight_cliping,  \* self.weight_cliping
  clipExplicit,    \* the constructor was given weight_cliping
  n_disc_steps,    \* self.n_disc_steps
  n_epoches,       \* argument of train
  len_loader,      \* len(train_loader)
  epoch,           \* loop variable of train
  batch_num,       \* loop variable of train_epoch
  pc,              \* position in train / train_epoch
  files,           \* generator.pt and discriminator.pt (<<>> = not written)
  abortReason,     \* the exception that ended train ("" = none)
  steps,           \* history: steps run by the current train_epoch call
  disc_log0,       \* history: disc_loss_log when train_epoch was entered
  gen_log0,        \* history: gen_loss_log when train_epoch was entered
  preClamp,        \* history: critic values after optimizer_disc.step()
  reported,        \* history: the slices the last report averaged
  nSaves,          \* history: completed save_models calls
  epochEndParams,  \* history: weights when train_epoch last returned
  stepFailed       \* history: a critic or generator step raised

vars == <<params, requires_grad, hasGrad, training, disc_loss_log,
          gen_loss_log, weight_cliping, clipExplicit, n_disc_steps,
          n_epoches, len_loader, epoch, batch_num, pc, files, abortReason,
          steps, disc_log0, gen_log0, preClamp, reported, nSaves,
          epochEndParams, stepFailed>>

\* --------------------------------------------------------------- helpers
MinF(a, b) == IF a < b THEN a ELSE b
MaxF(a, b) == IF a > b THEN a ELSE b

\* A clamp that forgets the lower bound.
ClampUpperOnly(v, lo, hi) == IF v = NaN THEN NaN ELSE MinF(v, hi)

\* Tensor.clamp_(lo, hi) on one element: min(max(v, lo), hi); NaN stays NaN.
Clamp(v, lo, hi) == IF v = NaN THEN NaN ELSE MinF(MaxF(v, lo), hi)

\* lo <= v <= hi on floats: false as soon as v is NaN.
InBox(v, lo, hi) == v # NaN /\ lo <= v /\ v <= hi

\* The flag is written to a misspelt attribute and has no effect.
set_model_require_grad_typo(rg, model, flag) == rg

\* set_model_require_grad(model, require_grad)
set_model_require_grad(rg, model, flag) ==
  [p \in Params |-> IF p \in model THEN flag ELSE rg[p]]

\* The parameters each optimizer was built over.
OptGenParams  == GenParams
OptDiscParams == DiscParams

\* optimizer.zero_grad(): the optimizer's own parameters lose their grad.
ZeroGrad(hg, opt) == hg \ opt

\* loss.backward(): every parameter of the graph that requires grad gets one.
Backward(hg, graph, rg) == hg \cup {p \in graph : rg[p]}

\* A step that updates every parameter holding a grad.
StepTargetsAnyGrad(opt, hg) == hg

\* optimizer.step(): parameters of the optimizer that have a grad are updated.
StepTargets(opt, hg) == opt \cap hg

\* The graph of loss_gen runs through both networks; that of loss_disc stops
\* at the detached generator output.
GenGraph  == Params
DiscGraph == DiscParams

\* Clamping that reaches the generator too.
ClampTargetsAll == Params

\* clamp_weights(): every critic parameter is clamped in place.
ClampTargets == DiscParams
clamp_weights(ps, clip) ==
  [p \in Params |-> IF p \in ClampTargets THEN Clamp(ps[p], -clip, clip)
                    ELSE ps[p]]

\* An insert at the front instead of an append.
PrependLog(log, e) == <<e>> \o log

\* log.append(loss.item())
AppendLog(log, e) == Append(log, e)

\* Python's lst[-n:]
LastN(lst, n) ==
  IF n = 0 \/ n >= Len(lst) THEN lst
  ELSE SubSeq(lst, Len(lst) - n + 1, Len(lst))

\* state_dict() of one network
StateDict(ps, model) == [p \in model |-> ps[p]]

\* A loop that runs one epoch too many.
TrainLoopCondOffByOne(e, n) == e <= n

\* for epoch in range(n_epoches)
TrainLoopCond(e, n) == e < n

\* A generator turn on the last batch of each group instead of the first.
GenTurnLast(b, k) == (b + 1) % k = 0

\* if batch_num % self.n_disc_steps == 0
GenTurn(b, k) == b % k = 0

\* A step error that is swallowed, the epoch going on to its save.
OnStepErrorSwallowed == "save"

\* train has no try/except: an exception in a step ends train.
OnStepError == "aborted"

FlagsCritic == \A p \in DiscParams : requires_grad[p]
FlagsGen    == \A p \in GenParams : requires_grad[p]
NoFlagsCritic == \A p \in DiscParams : ~requires_grad[p]
NoFlagsGen    == \A p \in GenParams : ~requires_grad[p]

\* ------------------------------------------------------------------ Init
Init ==
  /\ params \in [Params -> InitVals]
  /\ requires_grad \in [Params -> BOOLEAN]
  /\ hasGrad = {}
  /\ training = TRUE
  /\ disc_loss_log = <<>>
  /\ gen_loss_log = <<>>
  /\ clipExplicit \in BOOLEAN
  /\ weight_cliping = IF clipExplicit THEN ExplicitClip ELSE DefaultClip
  /\ n_disc_steps \in 0..MaxK
  /\ n_epoches \in 0..MaxEpochs
  /\ len_loader \in 0..MaxBatches
  /\ epoch = 0
  /\ batch_num = 0
  /\ pc = "train"
  /\ files = [gen |-> <<>>, disc |-> <<>>]
  /\ abortReason = ""
  /\ steps = <<>>
  /\ disc_log0 = <<>>
  /\ gen_log0 = <<>>
  /\ preClamp = [p \in DiscParams |-> 0]
  /\ reported = [valid |-> FALSE, epoch |-> 0, gen |-> <<>>, disc |-> <<>>]
  /\ nSaves = 0
  /\ epochEndParams = <<>>
  /\ stepFailed = FALSE

config == <<weight_cliping, clipExplicit, n_disc_steps, n_epoches, len_loader>>
history == <<steps, disc_log0, gen_log0, preClamp, reported, nSaves,
             epochEndParams, stepFailed>>

\* --------------------------------------------------------------- actions
\* train: the head of "for epoch in range(n_epoches)"; enters train_epoch.
TrainEpochBegin ==
  /\ pc = "train"
  /\ TrainLoopCond(epoch, n_epoches)
  /\ training' = TRUE
  /\ requires_grad' = set_model_require_grad(
                        set_model_require_grad(requires_grad, DiscParams, TRUE),
                        GenParams, FALSE)
  /\ batch_num' = 0
  /\ steps' = <<>>
  /\ disc_log0' = disc_loss_log
  /\ gen_log0' = gen_loss_log
  /\ pc' = "loop"
  /\ UNCHANGED <<params, hasGrad, disc_loss_log, gen_loss_log, config, epoch,
                 files, abortReason, preClamp, reported, nSaves,
                 epochEndParams, stepFailed>>

\* train: range(n_epoches) is exhausted.
TrainDone ==
  /\ pc = "train"
  /\ ~TrainLoopCond(epoch, n_epoches)
  /\ pc' = "done"
  /\ UNCHANGED <<params, requires_grad, hasGrad, training, disc_loss_log,
                 gen_loss_log, config, epoch, batch_num, files, abortReason,
                 history>>

\* train_epoch: the loader yields the next batch.
NextBatch ==
  /\ pc = "loop"
  /\ batch_num < len_loader
  /\ pc' = "disc"
  /\ UNCHANGED <<params, requires_grad, hasGrad, training, disc_loss_log,
                 gen_loss_log, config, epoch, batch_num, files, abortReason,
                 history>>

\* train_epoch: the loader is exhausted and train_epoch returns.
EpochReturn ==
  /\ pc = "loop"
  /\ batch_num >= len_loader
  /\ epochEndParams' = <<params>>
  /\ pc' = "save"
  /\ UNCHANGED <<params, requires_grad, hasGrad, training, disc_loss_log,
                 gen_loss_log, config, epoch, batch_num, files, abortReason,
                 steps, disc_log0, gen_log0, preClamp, reported, nSaves,
                 stepFailed>>

\* disc_step(z, real_images)
DiscStep ==
  /\ pc = "disc"
  /\ LET hg1 == ZeroGrad(hasGrad, OptDiscParams)
         hg2 == Backward(hg1, DiscGraph, requires_grad)
         upd == StepTargets(OptDiscParams, hg2)
     IN /\ hasGrad' = hg2
        /\ \E new \in [Params -> UpdateVals] :
             LET stepped == [p \in Params |->
                               IF p \in upd THEN new[p] ELSE params[p]]
             IN /\ preClamp' = [p \in DiscParams |-> stepped[p]]
                /\ params' = clamp_weights(stepped, weight_cliping)
  /\ disc_loss_log' = AppendLog(disc_loss_log,
                                [epoch |-> epoch, batch |-> batch_num])
  /\ steps' = Append(steps, [kind |-> "disc", batch |-> batch_num])
  /\ pc' = "check"
  /\ UNCHANGED <<requires_grad, training, gen_loss_log, config, epoch,
                 batch_num, files, abortReason, disc_log0, gen_log0, reported,
                 nSaves, epochEndParams, stepFailed>>

\* disc_step raises in the forward or backward pass.
DiscStepFails ==
  /\ pc = "disc"
  /\ hasGrad' = ZeroGrad(hasGrad, OptDiscParams)
  /\ pc' = OnStepError
  /\ abortReason' = "framework"
  /\ stepFailed' = TRUE
  /\ UNCHANGED <<params, requires_grad, training, disc_loss_log, gen_loss_log,
                 config, epoch, batch_num, files, steps, disc_log0, gen_log0,
                 preClamp, reported, nSaves, epochEndParams>>

\* batch_num % 0 raises ZeroDivisionError.
ModByZero ==
  /\ pc = "check"
  /\ n_disc_steps = 0
  /\ pc' = "aborted"
  /\ abortReason' = "ZeroDivisionError"
  /\ UNCHANGED <<params, requires_grad, hasGrad, training, disc_loss_log,
                 gen_loss_log, config, epoch, batch_num, files, history>>

\* The test holds: freeze the critic, unfreeze the generator.
GenPre ==
  /\ pc = "check"
  /\ n_disc_steps # 0
  /\ GenTurn(batch_num, n_disc_steps)
  /\ requires_grad' = set_model_require_grad(
                        set_model_require_grad(requires_grad, DiscParams, FALSE),
                        GenParams, TRUE)
  /\ pc' = "gen"
  /\ UNCHANGED <<params, hasGrad, training, disc_loss_log, gen_loss_log,
                 config, epoch, batch_num, files, abortReason, history>>

\* The test fails: on to the next batch.
SkipGen ==
  /\ pc = "check"
  /\ n_disc_steps # 0
  /\ ~GenTurn(batch_num, n_disc_steps)
  /\ batch_num' = batch_num + 1
  /\ pc' = "loop"
  /\ UNCHANGED <<params, requires_grad, hasGrad, training, disc_loss_log,
                 gen_loss_log, config, epoch, files, abortReason, history>>

\* gen_step(z)
GenStep ==
  /\ pc = "gen"
  /\ LET hg1 == ZeroGrad(hasGrad, OptGenParams)
         hg2 == Backward(hg1, GenGraph, requires_grad)
         upd == StepTargets(OptGenParams, hg2)
     IN /\ hasGrad' = hg2
        /\ \E new \in [Params -> GenUpdateVals] :
             params' = [p \in Params |->
                          IF p \in upd THEN new[p] ELSE params[p]]
  /\ gen_loss_log' = AppendLog(gen_loss_log,
                               [epoch |-> epoch, batch |-> batch_num])
  /\ steps' = Append(steps, [kind |-> "gen", batch |-> batch_num])
  /\ pc' = "gen_post"
  /\ UNCHANGED <<requires_grad, training, disc_loss_log, config, epoch,
                 batch_num, files, abortReason, disc_log0, gen_log0, preClamp,
                 reported, nSaves, epochEndParams, stepFailed>>

\* gen_step raises in the forward or backward pass.
GenStepFails ==
  /\ pc = "gen"
  /\ hasGrad' = ZeroGrad(hasGrad, OptGenParams)
  /\ pc' = OnStepError
  /\ abortReason' = "framework"
  /\ stepFailed' = TRUE
  /\ UNCHANGED <<params, requires_grad, training, disc_loss_log, gen_loss_log,
                 config, epoch, batch_num, files, steps, disc_log0, gen_log0,
                 preClamp, reported, nSaves, epochEndParams>>

\* After gen_step: unfreeze the critic, freeze the generator.
GenPost ==
  /\ pc = "gen_post"
  /\ requires_grad' = set_model_require_grad(
                        set_model_require_grad(requires_grad, DiscParams, TRUE),
                        GenParams, FALSE)
  /\ batch_num' = batch_num + 1
  /\ pc' = "loop"
  /\ UNCHANGED <<params, hasGrad, training, disc_loss_log, gen_loss_log,
                 config, epoch, files, abortReason, history>>

\* save_models(epoch=None): both files are overwritten.
SaveModels ==
  /\ pc = "save"
  /\ files' = [gen  |-> <<StateDict(params, GenParams)>>,
               disc |-> <<StateDict(params, DiscParams)>>]
  /\ nSaves' = nSaves + 1
  /\ pc' = "report"
  /\ UNCHANGED <<params, requires_grad, hasGrad, training, disc_loss_log,
                 gen_loss_log, config, epoch, batch_num, abortReason, steps,
                 disc_log0, gen_log0, preClamp, reported, epochEndParams,
                 stepFailed>>

\* torch.save raises: on the first file, or on the second after the first.
SaveFails ==
  /\ pc = "save"
  /\ \/ files' = files
     \/ files' = [files EXCEPT !.gen = <<StateDict(params, GenParams)>>]
  /\ pc' = "aborted"
  /\ abortReason' = "filesystem"
  /\ UNCHANGED <<params, requires_grad, hasGrad, training, disc_loss_log,
                 gen_loss_log, config, epoch, batch_num, history>>

\* The print of the epoch's mean losses, then eval() and the sample plots.
Report ==
  /\ pc = "report"
  /\ reported' = [valid |-> TRUE, epoch |-> epoch,
                  gen   |-> LastN(gen_loss_log, len_loader),
                  disc  |-> LastN(disc_loss_log, len_loader)]
  /\ training' = FALSE
  /\ epoch' = epoch + 1
  /\ pc' = "train"
  /\ UNCHANGED <<params, requires_grad, hasGrad, disc_loss_log, gen_loss_log,
                 config, batch_num, files, abortReason, steps, disc_log0,
                 gen_log0, preClamp, nSaves, epochEndParams, stepFailed>>

Next ==
  \/ TrainEpochBegin
  \/ TrainDone
  \/ NextBatch
  \/ EpochReturn
  \/ DiscStep
  \/ DiscStepFails
  \/ ModByZero
  \/ GenPre
  \/ SkipGen
  \/ GenStep
  \/ GenStepFails
  \/ GenPost
  \/ SaveModels
  \/ SaveFails
  \/ Report

Spec == Init /\ [][Next]_vars

\* train is one sequential call: it keeps running until it returns or raises.
FairSpec == Spec /\ WF_vars(Next)

TypeOK ==
  /\ pc \in {"train", "loop", "disc", "check", "gen", "gen_post", "save",
             "report", "done", "aborted"}
  /\ epoch \in 0..(MaxEpochs + 1)
  /\ batch_num \in 0..MaxBatches

\* ---------------------------------------------------------------- claims
StepErrorReasons == {"framework", "filesystem"}

AfterDiscStep == pc = "check"
AfterGenStep  == pc = "gen_post"
EpochReturned == pc = "save"

\* C1 (as stated): after every critic step every element of every critic
\* parameter lies in [-clip, clip], whatever the optimizer wrote.
C1_AllInBox ==
  AfterDiscStep =>
    \A p \in DiscParams : InBox(params[p], -weight_cliping, weight_cliping)

\* C1 (amended): after every critic step every critic element that the
\* optimizer did not leave NaN lies in [-clip, clip]; a NaN element is NaN.
C1_NonNaNInBox ==
  AfterDiscStep =>
    \A p \in DiscParams :
      IF preClamp[p] = NaN
      THEN params[p] = NaN
      ELSE InBox(params[p], -weight_cliping, weight_cliping)

C1_Witness ==
  /\ AfterDiscStep
  /\ \E p \in DiscParams : preClamp[p] # NaN /\ preClamp[p] > weight_cliping
  /\ \E p \in DiscParams : preClamp[p] < -weight_cliping

\* The steps of one train_epoch call over m batches with n_disc_steps = k.
StepsOfBatch(i, k) ==
  IF i % k = 0
  THEN <<[kind |-> "disc", batch |-> i], [kind |-> "gen", batch |-> i]>>
  ELSE <<[kind |-> "disc", batch |-> i]>>

RECURSIVE ExpectedSteps(_, _)
ExpectedSteps(m, k) ==
  IF m = 0 THEN <<>> ELSE ExpectedSteps(m - 1, k) \o StepsOfBatch(m - 1, k)

\* C2: with n_disc_steps = k >= 1, train_epoch runs for each batch index in
\* order one critic step, followed by a generator step iff index mod k = 0.
C2_Schedule ==
  (n_disc_steps >= 1 /\ pc \in {"loop", "save"}) =>
    /\ steps = ExpectedSteps(batch_num, n_disc_steps)
    /\ EpochReturned => batch_num = len_loader

C2_Witness ==
  /\ EpochReturned
  /\ n_disc_steps = 2
  /\ len_loader = 2
  /\ Len(steps) = 3

\* C3: a generator step leaves every critic parameter as it was; it changes
\* generator parameters and the generator loss log only.
C3_GenStepFrame ==
  [][(pc = "gen" /\ pc' = "gen_post") =>
       /\ \A p \in DiscParams : params'[p] = params[p]
       /\ disc_loss_log' = disc_loss_log
       /\ requires_grad' = requires_grad
       /\ files' = files
       /\ Len(gen_loss_log') = Len(gen_loss_log) + 1]_vars

C3_Witness ==
  /\ AfterGenStep
  /\ DiscParams \subseteq hasGrad
  /\ \E p \in GenParams : params[p] = NaN

\* C4: a critic step, its clamping included, leaves every generator
\* parameter as it was; it changes critic parameters and the critic loss
\* log only.
C4_DiscStepFrame ==
  [][(pc = "disc" /\ pc' = "check") =>
       /\ \A p \in GenParams : params'[p] = params[p]
       /\ gen_loss_log' = gen_loss_log
       /\ requires_grad' = requires_grad
       /\ files' = files
       /\ Len(disc_loss_log') = Len(disc_loss_log) + 1]_vars

C4_Witness ==
  /\ AfterDiscStep
  /\ GenParams \subseteq hasGrad
  /\ \E p \in GenParams :
       params[p] # NaN /\ ~InBox(params[p], -weight_cliping, weight_cliping)

CeilDiv(m, k) == (m + k - 1) \div k

IsPrefix(s, t) == Len(s) <= Len(t) /\ SubSeq(t, 1, Len(s)) = s

\* C5: one train_epoch call over m batches with n_disc_steps = k >= 1 appends
\* m entries to the critic log and ceil(m/k) to the generator log, and keeps
\* the earlier entries of both.
C5_LogCounts ==
  (n_disc_steps >= 1 /\ EpochReturned) =>
    /\ Len(disc_loss_log) = Len(disc_log0) + len_loader
    /\ Len(gen_loss_log) = Len(gen_log0) + CeilDiv(len_loader, n_disc_steps)
    /\ IsPrefix(disc_log0, disc_loss_log)
    /\ IsPrefix(gen_log0, gen_loss_log)

C5_Witness ==
  /\ EpochReturned
  /\ n_disc_steps = 2
  /\ len_loader = 2
  /\ Len(disc_log0) = 2
  /\ Len(gen_log0) = 1

EntriesOf(log, e) == SelectSeq(log, LAMBDA x : x.epoch = e)

\* C6: at the end of every epoch, with n_disc_steps >= 1, the critic slice
\* that is averaged is exactly the critic entries of this epoch and the
\* generator slice exactly the generator entries of this epoch.
C6_ReportedIsThisEpoch ==
  (n_disc_steps >= 1 /\ reported.valid) =>
    /\ reported.disc = EntriesOf(disc_loss_log, reported.epoch)
    /\ reported.gen = EntriesOf(gen_loss_log, reported.epoch)

\* C7: when a critic or generator step fails, train ends there, no save is
\* made for that epoch, and the checkpoint files hold the weights of the end
\* of the last completed epoch, or were never written.
C7_NoSaveOnStepFailure ==
  stepFailed =>
    /\ pc = "aborted"
    /\ nSaves = epoch
    /\ IF epoch = 0
       THEN files = [gen |-> <<>>, disc |-> <<>>]
       ELSE /\ epochEndParams # <<>>
            /\ files.gen = <<StateDict(epochEndParams[1], GenParams)>>
            /\ files.disc = <<StateDict(epochEndParams[1], DiscParams)>>

C7_Witness ==
  /\ stepFailed
  /\ epoch = 1
  /\ files.disc # <<>>
  /\ files.disc # <<StateDict(params, DiscParams)>>

\* C8 (as stated): whatever n_disc_steps is, train ends early only on a
\* tensor-framework or filesystem error.
C8_OnlyFrameworkAborts ==
  pc = "aborted" => abortReason \in StepErrorReasons

\* C8 (amended): train runs exactly n_epoches epochs, each a full train_epoch
\* followed by one save, and then completes, unless a tensor-framework or
\* filesystem error aborts it or n_disc_steps is 0 with a non-empty loader
\* (the first batch then raises ZeroDivisionError).
C8_RunsAllEpochs ==
  /\ [](pc = "done" =>
          /\ epoch = n_epoches
          /\ nSaves = n_epoches
          /\ Len(disc_loss_log) = n_epoches * len_loader)
  /\ []((pc = "aborted" /\ ~(n_disc_steps = 0 /\ len_loader > 0)) =>
          abortReason \in StepErrorReasons)
  /\ <>(pc \in {"done", "aborted"})

C8_Witness ==
  /\ pc = "done"
  /\ n_epoches = 2
  /\ len_loader = 2
  /\ nSaves = 2

\* C9: a trainer built without weight_cliping clamps to [-0.01, 0.01]: after
\* a critic step each critic element is its post-update value clamped into
\* that box (0.005 stays 0.005, 0.02 becomes 0.01).
C9_DefaultClipIsPaperClip ==
  (~clipExplicit /\ AfterDiscStep) =>
    \A p \in DiscParams : params[p] = Clamp(preClamp[p], -PaperClip, PaperClip)

\* C10: in train_epoch every critic step runs with the critic flags on and
\* the generator flags off, every generator step with the critic flags off
\* and the generator flags on, and after each generator step and at return
\* the flags are critic on, generator off.
C10_Flags ==
  /\ pc \in {"loop", "disc", "check", "save"} => FlagsCritic /\ NoFlagsGen
  /\ pc \in {"gen", "gen_post"} => NoFlagsCritic /\ FlagsGen

C10_Witness ==
  /\ pc = "loop"
  /\ Len(steps) >= 2
  /\ steps[Len(steps)].kind = "gen"
  /\ FlagsCritic
  /\ NoFlagsGen
====
